---- MODULE Spec2Model ----
(***************************************************************************)
(* Model of serverless-social-sync: the Cloudflare worker trigger          *)
(* (handleSync, src/unnamed/part_001) and the synchronisation engine       *)
(* (SocialSyncService, src/src/services/SocialSyncService.js, lines 1-364).*)
(*                                                                         *)
(* Timestamps are ISO-8601 strings in the program; here an instant is a    *)
(* positive integer (the clock value), Null stands for null/undefined/""   *)
(* and InvalidDate for a string new Date() cannot parse.  Text (error      *)
(* messages, response bodies, settings) is a sequence of tokens.           *)
(* The debug flag only switches logging on and is left out.                *)
(***************************************************************************)
EXTENDS Integers, Sequences, FiniteSets, TLC

\* ------------------------------------------------------------------ bounds
\* What happens around the worker (the clock advancing, a post arriving on a
\* platform, a trigger firing) happens at most MaxEvents times in all.
MaxEvents == 2

\* The platforms and the key-value store fail a call of the worker at most
\* MaxFaults times in all.
MaxFaults == 2
MaxRetries == 3

\* ------------------------------------------------------------- processes
\* The invocations of handleSync(env) that can be under way at a time; the
\* scheduled handler and the fetch handler (path /__scheduled) both call
\* it, and a new invocation takes the first free place.
Procs == 1..2

\* ------------------------------------------------------------ JS values
Null == 0
InvalidDate == -1
NaN == -2

Truthy(v) == v # Null

\* new Date(isoString): the instant, or an invalid date
ParseDate(s) == IF s \in Nat /\ s > 0 THEN s ELSE NaN

\* a <= b on two Date objects: false when either is invalid
DateLE(a, b) == a # NaN /\ b # NaN /\ a <= b

\* String.prototype.includes on token sequences
Includes(msg, needle) ==
  \E i \in 0..(Len(msg) - Len(needle)) :
     \A j \in 1..Len(needle) : msg[i + j] = needle[j]

\* --------------------------------------------------------------- errors
\* An Error object: its message and its status property (Null: no such
\* property).
NewError(message) == [message |-> message, status |-> Null]

\* HTTP responses of the Mastodon server, as fetch() resolves them
MastodonResponses ==
  { [status |-> 200, body |-> <<"json">>],
    [status |-> 429, body |-> <<"Too", "many", "requests">>],
    [status |-> 429, body |-> <<"rate", "limit", "exceeded">>],
    [status |-> 500, body |-> <<"Internal", "Server", "Error">>] }

\* Outcomes of a call of the Bluesky client (bsky.getAuthorFeed, bsky.post):
\* success, or the client's error object, which carries the HTTP status.
BskyOutcomes ==
  { [ok |-> TRUE],
    [ok |-> FALSE,
     error |-> [message |-> <<"Rate", "Limit", "Exceeded">>, status |-> 429]],
    [ok |-> FALSE,
     error |-> [message |-> <<"Internal", "Server", "Error">>, status |-> 500]] }

\* mastodonRequest: resolves with the JSON body when response.ok, throws
\* new Error(`Mastodon API error: ${response.status} ${text}`) otherwise.
MastodonRequest(response) ==
  IF response.status \in 200..299
    THEN [ok |-> TRUE]
    ELSE [ok |-> FALSE,
          error |-> NewError(<<"Mastodon", "API", "error:",
                               ToString(response.status)>> \o response.body)]

\* ------------------------------------------------------ rate-limit guard
\* variant: every status from 429 up is taken for a rate limit
IsRateLimitErrorFrom429(error) ==
  Includes(error.message, <<"rate", "limit">>) \/ error.status >= 429

\* error.message.includes('rate limit') || error.status === 429
IsRateLimitError(error) ==
  Includes(error.message, <<"rate", "limit">>) \/ error.status = 429

\* variant: base and exponent exchanged, Math.pow(i, 2) * 1000
WaitTimeSwapped(i) == (i ^ 2) * 1000

\* Math.pow(2, i) * 1000
WaitTime(i) == (2 ^ i) * 1000

\* new Error(`Failed after ${retries} retries`)
FailedAfterRetries(retries) ==
  NewError(<<"Failed", "after", ToString(retries), "retries">>)

\* The for loop of withRateLimit from iteration i on.  fn[k] is the outcome
\* of the k-th invocation of the operation; waits collects the setTimeout
\* delays in order.
RECURSIVE WithRateLimitLoop(_, _, _, _)
WithRateLimitLoop(fn, retries, i, waits) ==
  IF i < retries
    THEN LET r == fn[i + 1] IN
         IF r.ok
           THEN [ok |-> TRUE, error |-> NewError(<<>>),
                 calls |-> i + 1, waits |-> waits]
           ELSE IF IsRateLimitError(r.error)
             THEN WithRateLimitLoop(fn, retries, i + 1,
                                    Append(waits, WaitTime(i)))
             ELSE [ok |-> FALSE, error |-> r.error,
                   calls |-> i + 1, waits |-> waits]
    ELSE [ok |-> FALSE, error |-> FailedAfterRetries(retries),
          calls |-> i, waits |-> waits]

\* variant: the loop condition is i < retries - 1
WithRateLimitOneShort(fn, retries) ==
  WithRateLimitLoop(fn, retries - 1, 0, <<>>)

\* withRateLimit(fn, retries)
WithRateLimit(fn, retries) == WithRateLimitLoop(fn, retries, 0, <<>>)

DefaultRetries == 3

\* The operation of a guarded call, by the platform it talks to: the
\* outcome of each invocation from the platform's answer to it.
Operation(platform, answers) ==
  [k \in DOMAIN answers |->
     IF platform = "mastodon" THEN MastodonRequest(answers[k]) ELSE answers[k]]

Answers(platform) ==
  IF platform = "mastodon" THEN MastodonResponses ELSE BskyOutcomes

\* What withRateLimit(() => operation) can do at a call site that leaves
\* retries at its default, over all the answers the platform can give.
GuardedCall(answerSet) ==
  { WithRateLimit(fn, DefaultRetries) : fn \in [1..DefaultRetries -> answerSet] }

\* withRateLimit(() => this.mastodonRequest(...))
MastodonCalls ==
  GuardedCall({ MastodonRequest(response) : response \in MastodonResponses })

\* withRateLimit(() => this.bsky.post(...))
BskyCalls == GuardedCall(BskyOutcomes)

\* ------------------------------------------------------- text as characters
\* Post bodies and user names are sequences of one-character strings.
UpperChars == <<"A","B","C","D","E","F","G","H","I","J","K","L","M",
                "N","O","P","Q","R","S","T","U","V","W","X","Y","Z">>
LowerChars == <<"a","b","c","d","e","f","g","h","i","j","k","l","m",
                "n","o","p","q","r","s","t","u","v","w","x","y","z">>

UpperSet == { UpperChars[k] : k \in DOMAIN UpperChars }
LowerOf ==
  [c \in UpperSet |-> LowerChars[CHOOSE k \in DOMAIN UpperChars : UpperChars[k] = c]]

LowerChar(c) == IF c \in UpperSet THEN LowerOf[c] ELSE c

\* String.prototype.toLowerCase
ToLowerCase(s) == [k \in DOMAIN s |-> LowerChar(s[k])]

\* \s of a regular expression, and the characters trim() removes
IsSpace(c) == c \in {" ", "\n", "\t", "\r"}

\* . of a regular expression without the s flag
IsDot(c) == c \notin {"\n", "\r"}

\* s has the literal lit at position i (ignoring case, the i flag)
HasAt(s, i, lit) ==
  /\ i >= 1
  /\ i + Len(lit) - 1 <= Len(s)
  /\ \A k \in 1..Len(lit) : LowerChar(s[i + k - 1]) = LowerChar(lit[k])

\* the positions from..(to-1) of s
Slice(s, from, to) == IF from < to THEN SubSeq(s, from, to - 1) ELSE <<>>

\* ------------------------------------------------- cleanMastodonContent
\* /<br\s*\/?>/gi: the position after a match starting at i, 0 if none
RECURSIVE SkipSpaces(_, _)
SkipSpaces(s, i) ==
  IF i <= Len(s) /\ IsSpace(s[i]) THEN SkipSpaces(s, i + 1) ELSE i

MatchBr(s, i) ==
  IF HasAt(s, i, <<"<", "b", "r">>)
    THEN LET j == SkipSpaces(s, i + 3) IN
         IF HasAt(s, j, <<"/", ">">>) THEN j + 2
         ELSE IF HasAt(s, j, <<">">>) THEN j + 1
         ELSE 0
    ELSE 0

RECURSIVE ReplaceBr(_, _)
ReplaceBr(s, i) ==
  IF i > Len(s) THEN <<>>
  ELSE LET e == MatchBr(s, i) IN
       IF e # 0 THEN <<"\n">> \o ReplaceBr(s, e)
                ELSE <<s[i]>> \o ReplaceBr(s, i + 1)

\* (.*?) followed by the literal close: the least position e >= from where
\* close starts with only . characters in between, 0 if none
LazyUntil(s, from, close) ==
  LET Es == { e \in from..(Len(s) + 1) :
                /\ HasAt(s, e, close)
                /\ \A k \in from..(e - 1) : IsDot(s[k]) }
  IN IF Es = {} THEN 0 ELSE CHOOSE e \in Es : \A f \in Es : e <= f

\* /<p>(.*?)<\/p>/gi replaced by '$1\n\n'
RECURSIVE ReplaceP(_, _)
ReplaceP(s, i) ==
  IF i > Len(s) THEN <<>>
  ELSE LET e == IF HasAt(s, i, <<"<", "p", ">">>)
                  THEN LazyUntil(s, i + 3, <<"<", "/", "p", ">">>)
                  ELSE 0
       IN IF e # 0
            THEN Slice(s, i + 3, e) \o <<"\n", "\n">> \o ReplaceP(s, e + 4)
            ELSE <<s[i]>> \o ReplaceP(s, i + 1)

\* the least position >= from holding character c, 0 if none
IndexOf(s, from, c) ==
  LET Ps == { k \in from..Len(s) : s[k] = c }
  IN IF Ps = {} THEN 0 ELSE CHOOSE k \in Ps : \A q \in Ps : k <= q

\* /<a[^>]*href="([^"]*)"[^>]*>(.*?)<\/a>/gi at position i: the match as
\* [h |-> start of href=", q |-> closing quote, g |-> end of the opening
\* tag, e |-> start of </a>], for the greatest h the rest matches with
\* (the greedy [^>]* gives back characters until it does); e = 0 if none.
LinkFor(s, h) ==
  LET q == IndexOf(s, h + 6, "\"")
      g == IF q = 0 THEN 0 ELSE IndexOf(s, q + 1, ">")
      e == IF g = 0 THEN 0 ELSE LazyUntil(s, g + 1, <<"<", "/", "a", ">">>)
  IN [h |-> h, q |-> q, g |-> g, e |-> e]

MatchLink(s, i) ==
  LET Hs == { h \in (i + 2)..Len(s) :
                /\ \A k \in (i + 2)..(h - 1) : s[k] # ">"
                /\ HasAt(s, h, <<"h", "r", "e", "f", "=", "\"">>)
                /\ LinkFor(s, h).e # 0 }
  IN IF HasAt(s, i, <<"<", "a">>) /\ Hs # {}
       THEN LinkFor(s, CHOOSE h \in Hs : \A k \in Hs : k <= h)
       ELSE [h |-> 0, q |-> 0, g |-> 0, e |-> 0]

\* replaced by '$2 ($1)'
RECURSIVE ReplaceLinks(_, _)
ReplaceLinks(s, i) ==
  IF i > Len(s) THEN <<>>
  ELSE LET m == MatchLink(s, i) IN
       IF m.e # 0
         THEN Slice(s, m.g + 1, m.e) \o <<" ", "(">> \o Slice(s, m.h + 6, m.q)
              \o <<")">> \o ReplaceLinks(s, m.e + 4)
         ELSE <<s[i]>> \o ReplaceLinks(s, i + 1)

\* /<[^>]*>/g replaced by ''
RECURSIVE StripTags(_, _)
StripTags(s, i) ==
  IF i > Len(s) THEN <<>>
  ELSE LET g == IF s[i] = "<" THEN IndexOf(s, i + 1, ">") ELSE 0 IN
       IF g # 0 THEN StripTags(s, g + 1)
                ELSE <<s[i]>> \o StripTags(s, i + 1)

\* /\n{3,}/g replaced by '\n\n'
RECURSIVE SkipNewlines(_, _)
SkipNewlines(s, i) ==
  IF i <= Len(s) /\ s[i] = "\n" THEN SkipNewlines(s, i + 1) ELSE i

RECURSIVE CollapseNewlines(_, _)
CollapseNewlines(s, i) ==
  IF i > Len(s) THEN <<>>
  ELSE LET e == SkipNewlines(s, i) IN
       IF e - i >= 3 THEN <<"\n", "\n">> \o CollapseNewlines(s, e)
                     ELSE <<s[i]>> \o CollapseNewlines(s, i + 1)

\* variant: only the leading whitespace is removed
TrimStart(s) ==
  LET Ks == { k \in DOMAIN s : ~IsSpace(s[k]) } IN
  IF Ks = {} THEN <<>>
  ELSE SubSeq(s, CHOOSE k \in Ks : \A q \in Ks : k <= q, Len(s))

\* String.prototype.trim
Trim(s) ==
  LET Ks == { k \in DOMAIN s : ~IsSpace(s[k]) } IN
  IF Ks = {} THEN <<>>
  ELSE SubSeq(s, CHOOSE k \in Ks : \A q \in Ks : k <= q,
                 CHOOSE k \in Ks : \A q \in Ks : q <= k)

cleanMastodonContent(html) ==
  LET t1 == ReplaceBr(html, 1)
      t2 == ReplaceP(t1, 1)
      t3 == ReplaceLinks(t2, 1)
      t4 == StripTags(t3, 1)
      t5 == CollapseNewlines(t4, 1)
  IN Trim(t5)

\* ================================================================ state
VARIABLES
  env,                \* the worker's settings (the env of every invocation)
  clock,              \* the wall clock (new Date(), the platforms' clocks)
  kv,                 \* SYNC_STORE: the value under the key 'lastSync'
  bsky,               \* Bluesky: the author feed, most recent first
  masto,              \* Mastodon: the home timeline, most recent first
  delivered,          \* the source posts a publish call has succeeded for
  events,             \* what has happened around the worker so far
  faults,             \* calls of the worker that have failed so far
  pc,                 \* per invocation: the await it is suspended at
  stored,             \* per invocation: what SYNC_STORE.get('lastSync') gave
  config,             \* per invocation: the SyncConfig built by handleSync
  currentTime,        \* per invocation: sync()'s currentTime
  feed,               \* per invocation: the batch of the running direction
  idx,                \* per invocation: position of the for loop in feed
  syncedPosts,        \* per invocation: syncedPosts of the running direction
  blueskyToMastodon,  \* per invocation: what syncFromBluesky returned
  mastodonToBluesky,  \* per invocation: what syncFromMastodon returned
  report,             \* per invocation: what handleSync returned
  trace,              \* per invocation: the remote calls answered, in order
  rlPlatform,         \* guard harness: the platform the operation talks to
  rlAnswers,          \* guard harness: the platform's answer to each call
  rlRetries,          \* guard harness: the retries argument
  rlOut,              \* guard harness: what withRateLimit did
  html,               \* normaliser harness: the content handed over
  paragraphs,         \* normaliser harness: the paragraphs html is made of
  cleaned,            \* normaliser harness: what cleanMastodonContent gave
  committed           \* the posts published by a pass, with the watermark
                      \* that pass persisted

platformVars == <<bsky, masto, delivered>>
passVars == <<pc, stored, config, currentTime, feed, idx, syncedPosts,
              blueskyToMastodon, mastodonToBluesky, report, trace>>
rlVars == <<rlPlatform, rlAnswers, rlRetries, rlOut>>
textVars == <<html, paragraphs, cleaned>>
vars == <<env, clock, kv, events, faults, platformVars, passVars, rlVars,
          textVars, committed>>

\* ------------------------------------------------------------ environment
\* env.MASTODON_USERNAME as the operator typed it, and the user name the
\* Mastodon account really carries.
MastodonUsername == <<"J", "o">>
AccountUsername == <<"j", "o">>
OtherUsername == <<"b", "o">>

\* The worker's settings (wrangler.toml [vars]).
DryRunSettings == {"true", "false"}
IgnoreRepostsSettings == {"true", "false"}
PostsToSyncSettings == {<<>>, <<"1">>, <<"-", "1">>}
LastSyncSettings == {Null, 1, InvalidDate}

Envs == [DRY_RUN : DryRunSettings, IGNORE_REPOSTS : IgnoreRepostsSettings,
         POSTS_TO_SYNC : PostsToSyncSettings, LAST_SYNC : LastSyncSettings]

\* parseInt(string): optional sign, then the leading decimal digits;
\* NaN when there is none (also for undefined, here the empty text)
Digits == <<"0", "1", "2", "3", "4", "5", "6", "7", "8", "9">>
IsDigit(c) == \E d \in DOMAIN Digits : Digits[d] = c
DigitValue(c) == (CHOOSE d \in DOMAIN Digits : Digits[d] = c) - 1

RECURSIVE ParseDigits(_, _, _)
ParseDigits(s, i, acc) ==
  IF i <= Len(s) /\ IsDigit(s[i])
    THEN ParseDigits(s, i + 1, acc * 10 + DigitValue(s[i]))
    ELSE acc

\* the result is [isNaN, value]
ParseInt(s) ==
  LET b == SkipSpaces(s, 1)
      neg == b <= Len(s) /\ s[b] = "-"
      d == IF b <= Len(s) /\ s[b] \in {"-", "+"} THEN b + 1 ELSE b
  IN IF d <= Len(s) /\ IsDigit(s[d])
       THEN [isNaN |-> FALSE,
             value |-> (IF neg THEN -1 ELSE 1) * ParseDigits(s, d, 0)]
       ELSE [isNaN |-> TRUE, value |-> 0]

\* parseInt(env.POSTS_TO_SYNC) || 10
PostsToSync(setting) ==
  LET n == ParseInt(setting) IN IF n.isNaN \/ n.value = 0 THEN 10 ELSE n.value

\* the config object literal of handleSync, given what SYNC_STORE.get gave
BuildConfig(settings, watermark) ==
  [ postsToSync |-> PostsToSync(settings.POSTS_TO_SYNC),
    ignoreReposts |-> (settings.IGNORE_REPOSTS = "true"),
    dryRun |-> (settings.DRY_RUN = "true"),
    lastSync |-> IF Truthy(watermark) THEN watermark
                 ELSE IF Truthy(settings.LAST_SYNC) THEN settings.LAST_SYNC
                 ELSE Null,
    mastodonUsername |-> MastodonUsername ]

NoConfig == [postsToSync |-> 10, ignoreReposts |-> FALSE, dryRun |-> FALSE,
             lastSync |-> Null, mastodonUsername |-> <<>>]

\* The stats of a report, or their absence
Stats(aToB, bToA) ==
  [present |-> TRUE, blueskyToMastodon |-> aToB, mastodonToBluesky |-> bToA]

NoStats == [present |-> FALSE, blueskyToMastodon |-> 0, mastodonToBluesky |-> 0]

NoReport == [returned |-> FALSE, success |-> FALSE, dryRun |-> FALSE,
             timestamp |-> Null, stats |-> NoStats, error |-> <<>>]

\* ------------------------------------------------------------ platforms
Texts == { <<"h", "i">> }
Contents == { <<"<", "p", ">", "h", "i", "<", "/", "p", ">">> }

\* What a person can add to the Bluesky author feed: a post, a reply, a
\* repost (of a post that is no reply).
BskyKinds == { [reply |-> FALSE, repost |-> FALSE],
               [reply |-> TRUE, repost |-> FALSE],
               [reply |-> FALSE, repost |-> TRUE] }

\* What can arrive on the Mastodon home timeline: a status of the account,
\* a reblog by the account, a status of somebody the account follows.
MastoKinds == { [username |-> AccountUsername, reblog |-> FALSE],
                [username |-> AccountUsername, reblog |-> TRUE],
                [username |-> OtherUsername, reblog |-> FALSE] }

BskyUri(n) == "at://" \o ToString(n)
MastoId(n) == ToString(n)

NewBskyPost(kind, text, now) ==
  [uri |-> BskyUri(Len(bsky) + 1), indexedAt |-> now, reply |-> kind.reply,
   repost |-> kind.repost, text |-> text]

NewMastoStatus(kind, content, now) ==
  [id |-> MastoId(Len(masto) + 1), created_at |-> now,
   reblog |-> kind.reblog, username |-> kind.username, content |-> content]

\* Mastodon renders the text of a new status as one paragraph
RenderStatus(text) == <<"<", "p", ">">> \o text \o <<"<", "/", "p", ">">>

\* The accounts when the worker is deployed: each holds a post of its
\* owner, written at instant 1; the clock then shows 2.
OldBskyFeed ==
  << [uri |-> BskyUri(1), indexedAt |-> 1, reply |-> FALSE, repost |-> FALSE,
      text |-> <<"h", "i">>] >>

OldMastoTimeline ==
  << [id |-> MastoId(1), created_at |-> 1, reblog |-> FALSE,
      username |-> AccountUsername,
      content |-> <<"<", "p", ">", "h", "i", "<", "/", "p", ">">>] >>

\* the elements of a sequence
Range(seq) == { seq[k] : k \in DOMAIN seq }

\* the first n elements of a sequence
Take(seq, n) == SubSeq(seq, 1, IF n < Len(seq) THEN n ELSE Len(seq))

\* withRateLimit(() => this.bsky.getAuthorFeed({actor, limit})):
\* app.bsky.feed.getAuthorFeed accepts a limit of 1 to 100
BskyLimitRejected ==
  GuardedCall({ [ok |-> FALSE,
                 error |-> [message |-> <<"limit", "out", "of", "range">>,
                            status |-> 400]] })

BskyFeedCalls(limit) ==
  IF limit \in 1..100 THEN BskyCalls ELSE BskyLimitRejected

\* GET /api/v1/timelines/home without a limit in the URL gives 20 statuses
MastodonDefaultLimit == 20

NoRlOut == [done |-> FALSE, ok |-> FALSE, error |-> NewError(<<>>),
            calls |-> 0, waits |-> <<>>]

\* ---------------------------------------------------------------- Init
InitSync ==
  /\ env \in Envs
  /\ clock = 2
  /\ kv = Null
  /\ bsky = OldBskyFeed
  /\ masto = OldMastoTimeline
  /\ delivered = {}
  /\ events = 0
  /\ faults = 0
  /\ pc = [p \in Procs |-> "idle"]
  /\ stored = [p \in Procs |-> Null]
  /\ config = [p \in Procs |-> NoConfig]
  /\ currentTime = [p \in Procs |-> Null]
  /\ feed = [p \in Procs |-> <<>>]
  /\ idx = [p \in Procs |-> 1]
  /\ syncedPosts = [p \in Procs |-> <<>>]
  /\ blueskyToMastodon = [p \in Procs |-> <<>>]
  /\ mastodonToBluesky = [p \in Procs |-> <<>>]
  /\ report = [p \in Procs |-> NoReport]
  /\ trace = [p \in Procs |-> <<>>]
  /\ committed = {}

\* the guard harness at rest
InitGuard ==
  /\ rlPlatform = "bluesky"
  /\ rlAnswers = <<>>
  /\ rlRetries = 0
  /\ rlOut = NoRlOut

\* the normaliser harness at rest
NotCleaned == [done |-> FALSE, text |-> <<>>]

InitText ==
  /\ html = <<>>
  /\ paragraphs = <<>>
  /\ cleaned = NotCleaned

Init == InitSync /\ InitGuard /\ InitText

\* ------------------------------------------------------------- the world
\* The clock advances.
Tick ==
  /\ events < MaxEvents
  /\ events' = events + 1
  /\ clock' = clock + 1
  /\ UNCHANGED <<env, kv, faults, platformVars, passVars, rlVars, textVars, committed>>

\* The account holder posts, replies or reposts on Bluesky.
UserPostBluesky ==
  /\ events < MaxEvents
  /\ events' = events + 1
  /\ \E kind \in BskyKinds, text \in Texts :
       bsky' = <<NewBskyPost(kind, text, clock)>> \o bsky
  /\ UNCHANGED <<env, clock, kv, faults, masto, delivered, passVars, rlVars, textVars, committed>>

\* A status arrives on the Mastodon home timeline.
UserPostMastodon ==
  /\ events < MaxEvents
  /\ events' = events + 1
  /\ \E kind \in MastoKinds, content \in Contents :
       masto' = <<NewMastoStatus(kind, content, clock)>> \o masto
  /\ UNCHANGED <<env, clock, kv, faults, bsky, delivered, passVars, rlVars, textVars, committed>>

\* ------------------------------------------------------------ handleSync
\* A call of the worker is answered; failed tells whether with a failure.
Answered(failed) ==
  /\ failed => faults < MaxFaults
  /\ faults' = IF failed THEN faults + 1 ELSE faults

\* The record of an answered call: the operation, the platform called, the
\* source post it was made for, whether it succeeded, the error if not.
Event(op, platform, id, r) ==
  [op |-> op, platform |-> platform, id |-> id, ok |-> r.ok,
   error |-> IF r.ok THEN <<>> ELSE r.error.message]

Log(p, event) == trace' = [trace EXCEPT ![p] = Append(@, event)]

Succeeded == [ok |-> TRUE]
Failed(error) == [ok |-> FALSE, error |-> error]

\* the catch block of handleSync: the report of a failed pass
FailureReport(cfg, error) ==
  [returned |-> TRUE, success |-> FALSE, dryRun |-> cfg.dryRun,
   timestamp |-> Null, stats |-> NoStats, error |-> error.message]

\* the report of a pass that went through
SuccessReport(cfg, timestamp, aToB, bToA) ==
  [returned |-> TRUE, success |-> TRUE, dryRun |-> cfg.dryRun,
   timestamp |-> timestamp, stats |-> Stats(Len(aToB), Len(bToA)),
   error |-> <<>>]

\* sync() rethrows, handleSync catches and returns the failure report
Throw(p, error) ==
  /\ report' = [report EXCEPT ![p] = FailureReport(config[p], error)]
  /\ pc' = [pc EXCEPT ![p] = "done"]

\* variant: handleSync takes a lease first, which it gets only when no
\* other invocation is under way
MayStartWhenAlone(p) == \A q \in Procs : pc[q] = "idle"

\* handleSync begins with the read of the watermark: nothing is taken or
\* tested before it
MayStart(p) == TRUE

\* handleSync is called and SYNC_STORE.get('lastSync') answers.  The read
\* is outside the try block: when it fails, handleSync itself rejects.
\* Otherwise the config is built, the service constructed and sync() called,
\* which issues the first request of initialize().
Start(p) ==
  /\ pc[p] = "idle"
  /\ MayStart(p)
  /\ \A q \in Procs : q < p => pc[q] # "idle"
  /\ events < MaxEvents
  /\ events' = events + 1
  /\ \E getOk \in BOOLEAN :
       /\ Answered(~getOk)
       /\ IF getOk
            THEN /\ stored' = [stored EXCEPT ![p] = kv]
                 /\ config' = [config EXCEPT ![p] = BuildConfig(env, kv)]
                 /\ pc' = [pc EXCEPT ![p] = "init"]
                 /\ Log(p, Event("get", "kv", "", Succeeded))
            ELSE /\ UNCHANGED <<stored, config>>
                 /\ pc' = [pc EXCEPT ![p] = "threw"]
                 /\ Log(p, Event("get", "kv", "",
                                 Failed(NewError(<<"KV", "GET", "failed">>))))
  /\ UNCHANGED <<env, clock, kv, platformVars, currentTime, feed, idx,
                 syncedPosts, blueskyToMastodon, mastodonToBluesky, report,
                 rlVars, textVars, committed>>

\* initialize(): GET /api/v1/instance, verify_credentials, bsky.login, in
\* this order; the first that fails throws.
InitializeErrors ==
  { NewError(<<"Cannot", "reach", "Mastodon", "instance:", "503">>),
    NewError(<<"Mastodon", "API", "error:", "401", "invalid", "token">>),
    [message |-> <<"Invalid", "identifier", "or", "password">>,
     status |-> 401] }

\* variant: sync() calls syncFromMastodon() first
InitializedMastodonFirst(p) ==
  /\ currentTime' = [currentTime EXCEPT ![p] = clock]
  /\ pc' = [pc EXCEPT ![p] = "fetchB"]
  /\ report' = report

\* initialize() went through: sync() reads the clock into currentTime and
\* calls syncFromBluesky(), which asks for the author feed.
Initialized(p) ==
  /\ currentTime' = [currentTime EXCEPT ![p] = clock]
  /\ pc' = [pc EXCEPT ![p] = "fetchA"]
  /\ report' = report

\* variant: the catch blocks of initialize() log and do not rethrow
InitializeFailureSwallowed(p, error) == Initialized(p)

\* the catch blocks of initialize(): log and rethrow
InitializeFailed(p, error) ==
  /\ Throw(p, error)
  /\ currentTime' = currentTime

Initialize(p) ==
  /\ pc[p] = "init"
  /\ \/ /\ Answered(FALSE)
        /\ Log(p, Event("auth", "both", "", Succeeded))
        /\ Initialized(p)
     \/ \E error \in InitializeErrors :
          /\ Answered(TRUE)
          /\ Log(p, Event("auth", "both", "", Failed(error)))
          /\ InitializeFailed(p, error)
  /\ UNCHANGED <<env, clock, kv, events, platformVars, stored, config, feed,
                 idx, syncedPosts, blueskyToMastodon, mastodonToBluesky,
                 rlVars, textVars, committed>>

\* ------------------------------------------------------- syncFromBluesky
SyncedPost(source, sourceId, targetId, text, simulated, timestamp) ==
  [source |-> source, sourceId |-> sourceId, targetId |-> targetId,
   text |-> text, simulated |-> simulated, timestamp |-> timestamp]

\* variant: the comparison is < instead of <=
OlderThanLastSyncStrict(cfg, timestamp) ==
  Truthy(cfg.lastSync)
    /\ DateLE(ParseDate(timestamp), ParseDate(cfg.lastSync))
    /\ ParseDate(timestamp) # ParseDate(cfg.lastSync)

\* this.lastSync && new Date(timestamp) <= new Date(this.lastSync)
OlderThanLastSync(cfg, timestamp) ==
  Truthy(cfg.lastSync)
    /\ DateLE(ParseDate(timestamp), ParseDate(cfg.lastSync))

\* this.ignoreReposts && post.post.record.reply
SkipBlueskyRepost(cfg, post) == cfg.ignoreReposts /\ post.reply

\* variant: the publishing call is not guarded by the dry-run flag
PublishAlways(cfg) == TRUE

\* if (!this.dryRun) before the publishing call
ShouldPublish(cfg) == ~cfg.dryRun

\* The loop goes on with the next post: nothing leaves the function.
NextPost(p) ==
  /\ pc' = pc
  /\ report' = report

\* variant: the catch block inside the for loops rethrows
OnPostErrorRethrow(p, error) == Throw(p, error)

\* the catch block inside the for loops: log the error and continue
OnPostError(p, error) == NextPost(p)

\* variant: the listing call sits inside a try block whose catch goes on
\* with an empty batch
OnFetchErrorEmptyBatch(p, error) ==
  /\ pc' = [pc EXCEPT ![p] = IF @ = "fetchA" THEN "loopA" ELSE "loopB"]
  /\ report' = report

\* The listing call is outside every try block of its function: its error
\* leaves the function and sync().
OnFetchError(p, error) == Throw(p, error)

\* The answer to bsky.getAuthorFeed({actor, limit: postsToSync}) arrives,
\* through withRateLimit.  A failure leaves syncFromBluesky and sync().
FetchBluesky(p) ==
  /\ pc[p] = "fetchA"
  /\ \E r \in BskyFeedCalls(config[p].postsToSync) :
       /\ Answered(~r.ok /\ r \notin BskyLimitRejected)
       /\ Log(p, Event("fetch", "bluesky", "", r))
       /\ IF r.ok
            THEN /\ feed' = [feed EXCEPT ![p] =
                               Take(bsky, config[p].postsToSync)]
                 /\ idx' = [idx EXCEPT ![p] = 1]
                 /\ syncedPosts' = [syncedPosts EXCEPT ![p] = <<>>]
                 /\ pc' = [pc EXCEPT ![p] = "loopA"]
                 /\ report' = report
            ELSE /\ OnFetchError(p, r.error)
                 /\ UNCHANGED <<feed, idx, syncedPosts>>
  /\ UNCHANGED <<env, clock, kv, events, platformVars, stored, config,
                 currentTime, blueskyToMastodon, mastodonToBluesky, rlVars, textVars, committed>>

\* One iteration of the for loop of syncFromBluesky, the POST
\* /api/v1/statuses through withRateLimit included.
StepBluesky(p) ==
  /\ pc[p] = "loopA"
  /\ idx[p] <= Len(feed[p])
  /\ idx' = [idx EXCEPT ![p] = @ + 1]
  /\ LET post == feed[p][idx[p]]
         cfg == config[p]
     IN IF OlderThanLastSync(cfg, post.indexedAt) \/ SkipBlueskyRepost(cfg, post)
          THEN /\ NextPost(p)
               /\ UNCHANGED <<syncedPosts, masto, delivered, trace, faults>>
          ELSE IF ~ShouldPublish(cfg)
            THEN /\ syncedPosts' = [syncedPosts EXCEPT ![p] =
                       Append(@, SyncedPost("bluesky", post.uri, "DRY_RUN",
                                            post.text, cfg.dryRun, post.indexedAt))]
                 /\ NextPost(p)
                 /\ UNCHANGED <<masto, delivered, trace, faults>>
            ELSE \E r \in MastodonCalls :
                   LET mastoPost == NewMastoStatus(
                                      [username |-> AccountUsername,
                                       reblog |-> FALSE],
                                      RenderStatus(post.text), clock)
                   IN /\ Answered(~r.ok)
                      /\ Log(p, Event("publish", "mastodon", post.uri, r))
                      /\ IF r.ok
                           THEN /\ masto' = <<mastoPost>> \o masto
                                /\ delivered' = delivered \cup {post.uri}
                                /\ syncedPosts' = [syncedPosts EXCEPT ![p] =
                                     Append(@, SyncedPost("bluesky", post.uri,
                                                 mastoPost.id, post.text,
                                                 cfg.dryRun, post.indexedAt))]
                                /\ NextPost(p)
                           ELSE /\ OnPostError(p, r.error)
                                /\ UNCHANGED <<masto, delivered, syncedPosts>>
  /\ UNCHANGED <<env, clock, kv, events, bsky, stored, config, currentTime,
                 feed, blueskyToMastodon, mastodonToBluesky, rlVars, textVars, committed>>

\* variant: when syncFromBluesky returns, the engine moves its lastSync on
\* to currentTime
ReturnFromBlueskyAdvancing(p) ==
  /\ pc[p] = "loopA"
  /\ idx[p] > Len(feed[p])
  /\ blueskyToMastodon' = [blueskyToMastodon EXCEPT ![p] = syncedPosts[p]]
  /\ config' = [config EXCEPT ![p].lastSync = currentTime[p]]
  /\ pc' = [pc EXCEPT ![p] = "fetchB"]
  /\ UNCHANGED <<env, clock, kv, events, faults, platformVars, stored,
                 currentTime, feed, idx, syncedPosts, mastodonToBluesky,
                 report, trace, rlVars, textVars, committed>>

\* The loop is over: syncFromBluesky returns syncedPosts, and sync() calls
\* syncFromMastodon(), which asks for the home timeline.
ReturnFromBluesky(p) ==
  /\ pc[p] = "loopA"
  /\ idx[p] > Len(feed[p])
  /\ blueskyToMastodon' = [blueskyToMastodon EXCEPT ![p] = syncedPosts[p]]
  /\ pc' = [pc EXCEPT ![p] = "fetchB"]
  /\ UNCHANGED <<env, clock, kv, events, faults, platformVars, stored, config,
                 currentTime, feed, idx, syncedPosts, mastodonToBluesky,
                 report, trace, rlVars, textVars, committed>>

\* ------------------------------------------------------ syncFromMastodon
\* this.ignoreReposts && post.reblog
SkipMastodonReblog(cfg, post) == cfg.ignoreReposts /\ post.reblog

\* variant: the test of the author is missing
NotOwnPostNever(cfg, post) == FALSE

\* post.account.username.toLowerCase() !== mastodonUsername.toLowerCase()
NotOwnPost(cfg, post) ==
  ToLowerCase(post.username) # ToLowerCase(cfg.mastodonUsername)

\* The answer to GET /api/v1/timelines/home arrives, through withRateLimit.
\* The limit sits in options.params, which fetch() does not read, so the
\* server applies its own default.
FetchMastodon(p) ==
  /\ pc[p] = "fetchB"
  /\ \E r \in MastodonCalls :
       /\ Answered(~r.ok)
       /\ Log(p, Event("fetch", "mastodon", "", r))
       /\ IF r.ok
            THEN /\ feed' = [feed EXCEPT ![p] =
                               Take(masto, MastodonDefaultLimit)]
                 /\ idx' = [idx EXCEPT ![p] = 1]
                 /\ syncedPosts' = [syncedPosts EXCEPT ![p] = <<>>]
                 /\ pc' = [pc EXCEPT ![p] = "loopB"]
                 /\ report' = report
            ELSE /\ OnFetchError(p, r.error)
                 /\ UNCHANGED <<feed, idx, syncedPosts>>
  /\ UNCHANGED <<env, clock, kv, events, platformVars, stored, config,
                 currentTime, blueskyToMastodon, mastodonToBluesky, rlVars, textVars, committed>>

\* One iteration of the for loop of syncFromMastodon, bsky.post through
\* withRateLimit included.
StepMastodon(p) ==
  /\ pc[p] = "loopB"
  /\ idx[p] <= Len(feed[p])
  /\ idx' = [idx EXCEPT ![p] = @ + 1]
  /\ \E text \in {cleanMastodonContent(feed[p][idx[p]].content)} :
     LET post == feed[p][idx[p]]
         cfg == config[p]
     IN IF \/ OlderThanLastSync(cfg, post.created_at)
           \/ SkipMastodonReblog(cfg, post)
           \/ NotOwnPost(cfg, post)
          THEN /\ NextPost(p)
               /\ UNCHANGED <<syncedPosts, bsky, delivered, trace, faults>>
          ELSE IF ~ShouldPublish(cfg)
            THEN /\ syncedPosts' = [syncedPosts EXCEPT ![p] =
                       Append(@, SyncedPost("mastodon", post.id, "DRY_RUN",
                                            text, cfg.dryRun, post.created_at))]
                 /\ NextPost(p)
                 /\ UNCHANGED <<bsky, delivered, trace, faults>>
            ELSE \E r \in BskyCalls :
                   LET bskyPost == NewBskyPost(
                                     [reply |-> FALSE, repost |-> FALSE],
                                     text, clock)
                   IN /\ Answered(~r.ok)
                      /\ Log(p, Event("publish", "bluesky", post.id, r))
                      /\ IF r.ok
                           THEN /\ bsky' = <<bskyPost>> \o bsky
                                /\ delivered' = delivered \cup {post.id}
                                /\ syncedPosts' = [syncedPosts EXCEPT ![p] =
                                     Append(@, SyncedPost("mastodon", post.id,
                                                 bskyPost.uri, text,
                                                 cfg.dryRun, post.created_at))]
                                /\ NextPost(p)
                           ELSE /\ OnPostError(p, r.error)
                                /\ UNCHANGED <<bsky, delivered, syncedPosts>>
  /\ UNCHANGED <<env, clock, kv, events, masto, stored, config, currentTime,
                 feed, blueskyToMastodon, mastodonToBluesky, rlVars, textVars, committed>>

\* variant: the put is not guarded by the dry-run flag
PersistAlways(cfg) == TRUE

\* if (!config.dryRun) before SYNC_STORE.put
ShouldPersist(cfg) == ~cfg.dryRun

\* The loop is over: syncFromMastodon returns, sync() returns the results
\* with timestamp currentTime, and handleSync either asks SYNC_STORE to put
\* the timestamp or, in a dry run, returns its report at once.
ReturnFromMastodon(p) ==
  /\ pc[p] = "loopB"
  /\ idx[p] > Len(feed[p])
  /\ mastodonToBluesky' = [mastodonToBluesky EXCEPT ![p] = syncedPosts[p]]
  /\ IF ShouldPersist(config[p])
       THEN /\ report' = report
            /\ pc' = [pc EXCEPT ![p] = "put"]
       ELSE /\ report' = [report EXCEPT ![p] =
                 SuccessReport(config[p], currentTime[p],
                               blueskyToMastodon[p], syncedPosts[p])]
            /\ pc' = [pc EXCEPT ![p] = "done"]
  /\ UNCHANGED <<env, clock, kv, events, faults, platformVars, stored, config,
                 currentTime, feed, idx, syncedPosts, blueskyToMastodon,
                 trace, rlVars, textVars, committed>>

\* the posts the invocation p has published on the other platform, each
\* with the watermark the invocation persists
PublishedWith(p, watermark) ==
  { [id |-> sp.targetId, watermark |-> watermark] :
      sp \in { x \in Range(blueskyToMastodon[p]) \cup Range(mastodonToBluesky[p]) :
                 ~x.simulated } }

\* SYNC_STORE.put('lastSync', results.timestamp) answers; it is inside the
\* try block, so its failure gives the failure report.
PutWatermark(p) ==
  /\ pc[p] = "put"
  /\ \/ /\ Answered(FALSE)
        /\ Log(p, Event("put", "kv", "", Succeeded))
        /\ kv' = currentTime[p]
        /\ committed' = committed \cup PublishedWith(p, currentTime[p])
        /\ report' = [report EXCEPT ![p] =
             SuccessReport(config[p], currentTime[p],
                           blueskyToMastodon[p], mastodonToBluesky[p])]
        /\ pc' = [pc EXCEPT ![p] = "done"]
     \/ LET error == NewError(<<"KV", "PUT", "failed">>) IN
        /\ Answered(TRUE)
        /\ Log(p, Event("put", "kv", "", Failed(error)))
        /\ kv' = kv
        /\ committed' = committed
        /\ Throw(p, error)
  /\ UNCHANGED <<env, clock, events, platformVars, stored, config, currentTime,
                 feed, idx, syncedPosts, blueskyToMastodon, mastodonToBluesky,
                 rlVars, textVars>>

\* The invocation is over and its locals are gone.
Return(p) ==
  /\ pc[p] \in {"done", "threw"}
  /\ pc' = [pc EXCEPT ![p] = "idle"]
  /\ stored' = [stored EXCEPT ![p] = Null]
  /\ config' = [config EXCEPT ![p] = NoConfig]
  /\ currentTime' = [currentTime EXCEPT ![p] = Null]
  /\ feed' = [feed EXCEPT ![p] = <<>>]
  /\ idx' = [idx EXCEPT ![p] = 1]
  /\ syncedPosts' = [syncedPosts EXCEPT ![p] = <<>>]
  /\ blueskyToMastodon' = [blueskyToMastodon EXCEPT ![p] = <<>>]
  /\ mastodonToBluesky' = [mastodonToBluesky EXCEPT ![p] = <<>>]
  /\ report' = [report EXCEPT ![p] = NoReport]
  /\ trace' = [trace EXCEPT ![p] = <<>>]
  /\ UNCHANGED <<env, clock, kv, events, faults, platformVars, rlVars, textVars, committed>>

\* ------------------------------------------------------- specification
\* Passes one after another: the trigger starts handleSync only when no
\* other invocation is under way (the assumption of the design).
NoneRunning == \A q \in Procs : pc[q] = "idle"

\* variant: the trigger starts handleSync whatever is under way
StartAnyTime(p) == Start(p)

StartAlone(p) == NoneRunning /\ Start(p)

\* Passes that may overlap: the scheduled handler and the fetch handler
\* call handleSync whenever they are triggered.
NextOverlap ==
  \/ Tick
  \/ UserPostBluesky
  \/ UserPostMastodon
  \/ \E p \in Procs :
       \/ Start(p)
       \/ Initialize(p)
       \/ FetchBluesky(p)
       \/ StepBluesky(p)
       \/ ReturnFromBluesky(p)
       \/ FetchMastodon(p)
       \/ StepMastodon(p)
       \/ ReturnFromMastodon(p)
       \/ PutWatermark(p)
       \/ Return(p)

\* the worker deployed for live passes, without a LAST_SYNC setting
InitOverlap ==
  /\ Init
  /\ env.DRY_RUN = "false"
  /\ env.LAST_SYNC = Null
  /\ env.POSTS_TO_SYNC = <<>>

SpecOverlap == InitOverlap /\ [][NextOverlap]_vars

Pass(p) ==
  \/ StartAlone(p)
  \/ Initialize(p)
  \/ FetchBluesky(p)
  \/ StepBluesky(p)
  \/ ReturnFromBluesky(p)
  \/ FetchMastodon(p)
  \/ StepMastodon(p)
  \/ ReturnFromMastodon(p)
  \/ PutWatermark(p)
  \/ Return(p)

Next ==
  \/ Tick
  \/ UserPostBluesky
  \/ UserPostMastodon
  \/ \E p \in Procs : Pass(p)

Spec == Init /\ [][Next]_vars

\* Passes one after another while time goes by between and during them:
\* the clock advances up to MaxClock without anything else happening.
MaxClock == 3

Wait ==
  /\ clock < MaxClock
  /\ clock' = clock + 1
  /\ UNCHANGED <<env, kv, events, faults, platformVars, passVars, rlVars,
                 textVars, committed>>

NextSequential ==
  \/ Wait
  \/ Next

SpecSequential == InitOverlap /\ [][NextSequential]_vars

\* --------------------------------------------------- the guard on its own
\* withRateLimit(operation, retries) applied to an operation whose
\* successive invocations the platform answers with rlAnswers.
InitRL ==
  /\ InitSync
  /\ env = [DRY_RUN |-> "true", IGNORE_REPOSTS |-> "true",
            POSTS_TO_SYNC |-> <<>>, LAST_SYNC |-> Null]
  /\ rlPlatform \in {"mastodon", "bluesky"}
  /\ rlRetries \in 0..MaxRetries
  /\ rlAnswers \in [1..MaxRetries -> Answers(rlPlatform)]
  /\ rlOut = NoRlOut
  /\ InitText

\* the operation handed to withRateLimit
rlOperation == Operation(rlPlatform, rlAnswers)

Call ==
  /\ ~rlOut.done
  /\ LET r == WithRateLimit(rlOperation, rlRetries) IN
     rlOut' = [done |-> TRUE, ok |-> r.ok, error |-> r.error,
               calls |-> r.calls, waits |-> r.waits]
  /\ UNCHANGED <<env, clock, kv, events, faults, platformVars, passVars,
                 rlPlatform, rlAnswers, rlRetries, textVars, committed>>

NextRL == Call

SpecRL == InitRL /\ [][NextRL]_vars

\* ---------------------------------------------- the normaliser on its own
\* cleanMastodonContent(html) applied to a status content: plain text of at
\* most MaxTextLen characters, or markup of at most MaxParagraphs paragraph
\* elements.
MaxTextLen == 4
MaxParagraphs == 2

PlainChars == {"a", " ", "\n", "<", ">"}
PlainTexts == UNION { [1..n -> PlainChars] : n \in 0..MaxTextLen }

Hello == <<"H", "e", "l", "l", "o">>
World == <<"W", "o", "r", "l", "d">>
ParagraphTexts == { Hello, World, <<"a", "\n", "b">> }

\* what follows <p in the opening tag: nothing, or an attribute
ParagraphAttributes ==
  { <<>>, <<" ", "c", "l", "a", "s", "s", "=", "\"", "x", "\"">> }

ParagraphElements == [attributes : ParagraphAttributes, text : ParagraphTexts]
ParagraphSeqs == UNION { [1..n -> ParagraphElements] : n \in 1..MaxParagraphs }

\* the markup of a sequence of paragraph elements
RECURSIVE Markup(_)
Markup(ps) ==
  IF ps = <<>> THEN <<>>
  ELSE <<"<", "p">> \o Head(ps).attributes \o <<">">> \o Head(ps).text
       \o <<"<", "/", "p", ">">> \o Markup(Tail(ps))

InitNormalise ==
  /\ InitSync
  /\ env = [DRY_RUN |-> "true", IGNORE_REPOSTS |-> "true",
            POSTS_TO_SYNC |-> <<>>, LAST_SYNC |-> Null]
  /\ InitGuard
  /\ cleaned = NotCleaned
  /\ \/ paragraphs = <<>> /\ html \in PlainTexts
     \/ paragraphs \in ParagraphSeqs /\ html = Markup(paragraphs)

Normalise ==
  /\ ~cleaned.done
  /\ cleaned' = [done |-> TRUE, text |-> cleanMastodonContent(html)]
  /\ UNCHANGED <<env, clock, kv, events, faults, platformVars, passVars,
                 rlVars, html, paragraphs, committed>>

NextText == Normalise

SpecText == InitNormalise /\ [][NextText]_vars

\* ================================================ properties of a pass

\* every SyncedPost the invocation p holds, in the list being built or in a
\* list a direction has returned
SyncedOf(p) ==
  Range(syncedPosts[p]) \cup Range(blueskyToMastodon[p])
    \cup Range(mastodonToBluesky[p])

\* the answered calls of kind op of the invocation p
Calls(p, op) == { e \in Range(trace[p]) : e.op = op }

\* lastSync of the invocation p is set to an instant
LastSyncSet(p) == config[p].lastSync \in Nat \ {0}

\* C1: in every pass with lastSync set, for every post of either platform
\* (so for every fetched one) whose timestamp is less than or equal to
\* lastSync, no SyncedPost with that sourceId is in the list being built,
\* in blueskyToMastodon or in mastodonToBluesky, and no publish call is
\* made for it.
C1_WatermarkFilter ==
  \A p \in Procs :
    LastSyncSet(p) =>
      /\ \A post \in Range(bsky) :
           post.indexedAt <= config[p].lastSync =>
             /\ \A sp \in SyncedOf(p) :
                  ~(sp.source = "bluesky" /\ sp.sourceId = post.uri)
             /\ \A e \in Calls(p, "publish") : e.id # post.uri
      /\ \A post \in Range(masto) :
           post.created_at <= config[p].lastSync =>
             /\ \A sp \in SyncedOf(p) :
                  ~(sp.source = "mastodon" /\ sp.sourceId = post.id)
             /\ \A e \in Calls(p, "publish") : e.id # post.id

\* C1 happens: a live pass with lastSync set has gone through, its Mastodon
\* batch held a status not younger than lastSync, and it synced another.
C1_Witness ==
  \E p \in Procs :
    /\ pc[p] = "done"
    /\ report[p].success
    /\ ~config[p].dryRun
    /\ LastSyncSet(p)
    /\ \E k \in DOMAIN feed[p] : feed[p][k].created_at <= config[p].lastSync
    /\ mastodonToBluesky[p] # <<>>

\* C2: in a pass with dryRun = true no publish call is made in either
\* direction, and every SyncedPost produced has targetId 'DRY_RUN' and
\* simulated = true.
C2_DryRun ==
  \A p \in Procs :
    config[p].dryRun =>
      /\ Calls(p, "publish") = {}
      /\ \A sp \in SyncedOf(p) : sp.targetId = "DRY_RUN" /\ sp.simulated = TRUE

\* C2 happens: a dry run has gone through with posts in both lists.
C2_Witness ==
  \E p \in Procs :
    /\ pc[p] = "done"
    /\ report[p].success
    /\ config[p].dryRun
    /\ blueskyToMastodon[p] # <<>>
    /\ mastodonToBluesky[p] # <<>>

\* sync() of the invocation p has returned its results: authentication and
\* both listings succeeded and the loop of the second direction is over
SyncReturned(p) ==
  /\ \E e \in Calls(p, "auth") : e.ok
  /\ \E e \in Calls(p, "fetch") : e.platform = "bluesky" /\ e.ok
  /\ \E e \in Calls(p, "fetch") : e.platform = "mastodon" /\ e.ok
  /\ idx[p] > Len(feed[p])

\* a step that changes the persisted watermark is the put of an invocation
\* that is no dry run and whose sync() has returned, and writes that
\* pass's timestamp
WatermarkWrittenByTrigger ==
  kv' # kv =>
    \E p \in Procs :
      /\ pc[p] = "put"
      /\ ~config[p].dryRun
      /\ SyncReturned(p)
      /\ kv' = currentTime[p]
      /\ report'[p].success

\* in a dry run, in a pass that has failed and in a pass that has not come
\* to its end, the persisted watermark is what the pass read at its start
WatermarkUntouched ==
  \A p \in Procs :
    (\/ pc[p] \in {"init", "fetchA", "loopA", "fetchB", "loopB", "put"}
     \/ pc[p] = "done" /\ config[p].dryRun
     \/ pc[p] = "done" /\ ~report[p].success)
      => kv = stored[p]

\* C3: the persisted watermark is written only by the trigger, only after
\* sync() has returned successfully, and only when dryRun is false; in a
\* dry-run pass, in a pass that fails and in a pass stopped at any point
\* before its end the persisted watermark is unchanged.
C3_WatermarkCommit == []WatermarkUntouched /\ [][WatermarkWrittenByTrigger]_vars

\* C3 happens: a live pass has gone through and the persisted watermark,
\* which was something else before, is its timestamp.
C3_Witness ==
  \E p \in Procs :
    /\ pc[p] = "done"
    /\ report[p].success
    /\ ~config[p].dryRun
    /\ kv = currentTime[p]
    /\ kv # stored[p]

\* the batch the invocation p holds is that of the first direction (the
\* Bluesky author feed), or that of the second (the Mastodon timeline)
BatchIsB(p) == \E e \in Calls(p, "fetch") : e.platform = "mastodon" /\ e.ok
BatchIsA(p) ==
  (\E e \in Calls(p, "fetch") : e.platform = "bluesky" /\ e.ok) /\ ~BatchIsB(p)

\* the post passes the filters of its direction
EligibleA(cfg, post) ==
  ~OlderThanLastSync(cfg, post.indexedAt) /\ ~SkipBlueskyRepost(cfg, post)
EligibleB(cfg, post) ==
  /\ ~OlderThanLastSync(cfg, post.created_at)
  /\ ~SkipMastodonReblog(cfg, post)
  /\ ~NotOwnPost(cfg, post)

Attempted(p, id) == \E e \in Calls(p, "publish") : e.id = id
Published(p, id) == \E e \in Calls(p, "publish") : e.id = id /\ e.ok

SourceIds(list) == [k \in DOMAIN list |-> list[k].sourceId]

\* of the first n posts of the batch, in the batch's order, the ids of those
\* that passed the filters and were published (in a dry run: that passed
\* the filters)
ExpectedA(p, n) ==
  LET Keep(post) == /\ EligibleA(config[p], post)
                    /\ config[p].dryRun \/ Published(p, post.uri)
      kept == SelectSeq(SubSeq(feed[p], 1, n), Keep)
  IN [k \in DOMAIN kept |-> kept[k].uri]

ExpectedB(p, n) ==
  LET Keep(post) == /\ EligibleB(config[p], post)
                    /\ config[p].dryRun \/ Published(p, post.id)
      kept == SelectSeq(SubSeq(feed[p], 1, n), Keep)
  IN [k \in DOMAIN kept |-> kept[k].id]

\* C4: in syncFromBluesky and syncFromMastodon, whichever publish calls
\* fail, the list built so far holds exactly the posts gone through that
\* passed the filters and whose publish succeeded, in the batch's order;
\* once the direction has returned, the whole batch has been gone through,
\* every post that passed the filters has had its publish call, and the
\* returned list is that list; and no pass ends on a failed publish call.
C4_PartialFailureContainment ==
  \A p \in Procs :
    /\ BatchIsA(p) =>
         /\ SourceIds(syncedPosts[p]) = ExpectedA(p, idx[p] - 1)
         /\ pc[p] # "loopA" =>
              /\ idx[p] = Len(feed[p]) + 1
              /\ blueskyToMastodon[p] = syncedPosts[p]
              /\ \A k \in DOMAIN feed[p] :
                   (EligibleA(config[p], feed[p][k]) /\ ~config[p].dryRun)
                     => Attempted(p, feed[p][k].uri)
    /\ BatchIsB(p) =>
         /\ SourceIds(syncedPosts[p]) = ExpectedB(p, idx[p] - 1)
         /\ pc[p] # "loopB" =>
              /\ idx[p] = Len(feed[p]) + 1
              /\ mastodonToBluesky[p] = syncedPosts[p]
              /\ \A k \in DOMAIN feed[p] :
                   (EligibleB(config[p], feed[p][k]) /\ ~config[p].dryRun)
                     => Attempted(p, feed[p][k].id)
    /\ (pc[p] = "done" /\ trace[p] # <<>>)
         => trace[p][Len(trace[p])].op # "publish"

\* C4 happens: a Mastodon batch of three posts that pass the filters, the
\* publish of the second failing by retry exhaustion; the returned list
\* holds the first and the third.
C4_Witness ==
  \E p \in Procs :
    /\ pc[p] \in {"put", "done"}
    /\ BatchIsB(p)
    /\ Len(feed[p]) = 3
    /\ \A k \in 1..3 : EligibleB(config[p], feed[p][k])
    /\ Published(p, feed[p][1].id)
    /\ \E e \in Calls(p, "publish") :
         /\ e.id = feed[p][2].id
         /\ ~e.ok
         /\ e.error = <<"Failed", "after", "3", "retries">>
    /\ Published(p, feed[p][3].id)
    /\ SourceIds(mastodonToBluesky[p]) = <<feed[p][1].id, feed[p][3].id>>

\* C5: if authentication fails in initialize(), the pass makes no listing
\* call and no publish call on either platform and no put, produces no
\* SyncedPost, the trigger returns a report with success false, and the
\* persisted watermark is what it was at the start of the pass.
C5_AuthenticationFailure ==
  \A p \in Procs :
    (\E e \in Calls(p, "auth") : ~e.ok) =>
      /\ Calls(p, "fetch") = {}
      /\ Calls(p, "publish") = {}
      /\ Calls(p, "put") = {}
      /\ SyncedOf(p) = {}
      /\ pc[p] = "done"
      /\ report[p].returned
      /\ ~report[p].success
      /\ kv = stored[p]

\* C5 happens: a watermark has been persisted by an earlier pass, and the
\* authentication of this one has failed.
C5_Witness ==
  \E p \in Procs :
    /\ \E e \in Calls(p, "auth") : ~e.ok
    /\ report[p].returned
    /\ ~report[p].success
    /\ kv # Null
    /\ kv = stored[p]

\* C6: if the listing call of either direction fails, it is the last call
\* of the pass, the trigger returns a report with success false, without
\* stats and with the error of the listing call, and the persisted
\* watermark is what it was at the start of the pass; also when the first
\* direction has published posts before.
C6_FetchFailure ==
  \A p \in Procs :
    \A k \in DOMAIN trace[p] :
      (trace[p][k].op = "fetch" /\ ~trace[p][k].ok) =>
        /\ k = Len(trace[p])
        /\ pc[p] = "done"
        /\ report[p].returned
        /\ ~report[p].success
        /\ ~report[p].stats.present
        /\ report[p].error = trace[p][k].error
        /\ kv = stored[p]

\* C6 happens: the first direction has published a post on Mastodon, then
\* the listing of the Mastodon timeline has failed.
C6_Witness ==
  \E p \in Procs :
    /\ trace[p] # <<>>
    /\ LET last == trace[p][Len(trace[p])] IN
         last.op = "fetch" /\ last.platform = "mastodon" /\ ~last.ok
    /\ \E e \in Calls(p, "publish") : e.platform = "mastodon" /\ e.ok
    /\ blueskyToMastodon[p] # <<>>
    /\ report[p].returned
    /\ ~report[p].success
    /\ kv = stored[p]

\* ============================================== properties of the guard
\* A rate-limit condition, as the caller of the guard understands it: the
\* failure carries the HTTP status 429, or its message the words
\* 'rate limit'.
RateLimitCondition(error) ==
  error.status = 429 \/ Includes(error.message, <<"rate", "limit">>)

\* the k-th invocation of the operation fails with a rate-limit condition
FailsRateLimited(k) ==
  ~rlOperation[k].ok /\ RateLimitCondition(rlOperation[k].error)

\* the k-th invocation of the operation fails otherwise
FailsOtherwise(k) ==
  ~rlOperation[k].ok /\ ~RateLimitCondition(rlOperation[k].error)

\* C7: an operation that fails with a rate-limit condition k times, k less
\* than the retries argument, and then succeeds makes withRateLimit return
\* the success value after exactly k retries (k + 1 invocations), the i-th
\* wait (i = 0..k-1) being 2^i * 1000 ms; for k = 2 the waits are 1000 ms
\* then 2000 ms.
C7_RateLimitRetry ==
  rlOut.done =>
    \A k \in 0..(rlRetries - 1) :
      ((\A j \in 1..k : FailsRateLimited(j)) /\ rlOperation[k + 1].ok)
        => /\ rlOut.ok
           /\ rlOut.calls = k + 1
           /\ Len(rlOut.waits) = k
           /\ \A i \in 0..(k - 1) : rlOut.waits[i + 1] = (2 ^ i) * 1000
           /\ k = 2 => rlOut.waits = <<1000, 2000>>

\* C7 happens: two rate-limited invocations, then a success, under three
\* retries.
C7_Witness ==
  /\ rlOut.done
  /\ rlRetries = 3
  /\ FailsRateLimited(1)
  /\ FailsRateLimited(2)
  /\ rlOperation[3].ok
  /\ rlOut.ok
  /\ rlOut.calls = 3
  /\ rlOut.waits = <<1000, 2000>>

\* C8: a Mastodon API call answered with HTTP status 429 is taken by
\* withRateLimit for a rate-limit condition and retried with backoff: when
\* at least two attempts are allowed, the first answer 429 is followed by a
\* wait of 1000 ms and a second invocation, and the caller does not get the
\* error of the first invocation after a single call.
C8_Mastodon429Retried ==
  (/\ rlOut.done
   /\ rlPlatform = "mastodon"
   /\ rlRetries >= 2
   /\ rlAnswers[1].status = 429)
    => /\ rlOut.calls >= 2
       /\ Len(rlOut.waits) >= 1
       /\ rlOut.waits[1] = 1000

\* What happens instead of C8: the Mastodon server answers 429 with the
\* body 'Too many requests'; the operation is invoked once, no wait
\* follows, and the caller gets the error of that invocation.
C8_Witness ==
  /\ rlOut.done
  /\ rlPlatform = "mastodon"
  /\ rlRetries = 3
  /\ rlAnswers[1] = [status |-> 429, body |-> <<"Too", "many", "requests">>]
  /\ ~rlOut.ok
  /\ rlOut.calls = 1
  /\ rlOut.waits = <<>>
  /\ rlOut.error = rlOperation[1].error

\* C9: a failure of the operation that is no rate-limit condition reaches
\* the caller at once, on whichever attempt k it occurs: the operation has
\* been invoked k times and not again, the only waits are the k - 1 that
\* followed the earlier rate-limited attempts, and the error is the
\* operation's own.
C9_OtherFailurePropagates ==
  rlOut.done =>
    \A k \in 1..rlRetries :
      ((\A j \in 1..(k - 1) : FailsRateLimited(j)) /\ FailsOtherwise(k))
        => /\ ~rlOut.ok
           /\ rlOut.error = rlOperation[k].error
           /\ rlOut.calls = k
           /\ Len(rlOut.waits) = k - 1

\* C9 happens: the second attempt, after a rate-limited first one, fails
\* with a server error.
C9_Witness ==
  /\ rlOut.done
  /\ rlRetries = 3
  /\ FailsRateLimited(1)
  /\ FailsOtherwise(2)
  /\ ~rlOut.ok
  /\ rlOut.error = rlOperation[2].error
  /\ rlOut.calls = 2
  /\ rlOut.waits = <<1000>>

\* C10: when every attempt fails with a rate-limit condition, withRateLimit
\* invokes the operation exactly as many times as the retries argument says
\* (3 when the argument is left out), and then fails with the error 'Failed
\* after <retries> retries', which is none of the operation's errors.
C10_RetryExhaustion ==
  /\ rlOut.done =>
       ((\A j \in 1..rlRetries : FailsRateLimited(j))
          => /\ ~rlOut.ok
             /\ rlOut.calls = rlRetries
             /\ rlOut.error.message =
                  <<"Failed", "after", ToString(rlRetries), "retries">>
             /\ \A j \in 1..rlRetries : rlOut.error # rlOperation[j].error)
  /\ \A r \in BskyCalls \cup MastodonCalls :
       (~r.ok /\ r.error.message = <<"Failed", "after", "3", "retries">>)
         => r.calls = 3

\* C10 happens: three attempts, all rate-limited.
C10_Witness ==
  /\ rlOut.done
  /\ rlRetries = 3
  /\ \A j \in 1..3 : FailsRateLimited(j)
  /\ ~rlOut.ok
  /\ rlOut.calls = 3
  /\ rlOut.error.message = <<"Failed", "after", "3", "retries">>

\* ===================================================== delivery of posts
\* the timestamp of the source post a publish call was made for
SourceTimestamp(e) ==
  IF e.platform = "mastodon"
    THEN (CHOOSE post \in Range(bsky) : post.uri = e.id).indexedAt
    ELSE (CHOOSE post \in Range(masto) : post.id = e.id).created_at

\* C11: over live passes run one after another, a post that is newer than
\* the watermark, passes the filters and is fetched is published at least
\* once, also when its publish call fails in the pass that first fetches
\* it.  Every later pass reads the persisted watermark and publishes
\* nothing at or behind it, so this needs: a post whose publish call has
\* failed is not at or behind the persisted watermark unless a publish call
\* has succeeded for it.
C11_AtLeastOnce ==
  \A p \in Procs :
    \A e \in Calls(p, "publish") :
      (~e.ok /\ kv \in Nat \ {0} /\ SourceTimestamp(e) <= kv)
        => e.id \in delivered

\* What happens instead of C11: no LAST_SYNC is configured, a later live
\* pass has read the watermark the earlier one persisted (the first the
\* worker ever had) and has gone through; a Bluesky post of the
\* author that is no reply and no repost is behind that watermark, has
\* never been published, and gets no publish call.
C11_Witness ==
  \E p \in Procs :
    /\ pc[p] = "done"
    /\ report[p].success
    /\ ~config[p].dryRun
    /\ env.LAST_SYNC = Null
    /\ stored[p] # Null
    /\ \E post \in Range(bsky) :
         /\ ~post.reply
         /\ ~post.repost
         /\ post.indexedAt <= stored[p]
         /\ post.uri \notin delivered
         /\ ~Attempted(p, post.uri)

\* ================================================================ filters
\* the invocation p holds a SyncedPost for the source post, or has made a
\* publish call for it
Handled(p, source, id) ==
  \/ \E sp \in SyncedOf(p) : sp.source = source /\ sp.sourceId = id
  \/ Attempted(p, id)

\* the first direction of the invocation p has returned with its batch
\* still at hand; the second direction has returned
ReturnedA(p) == BatchIsA(p) /\ pc[p] # "loopA"
ReturnedB(p) == BatchIsB(p) /\ pc[p] # "loopB"

\* C12: when ignoreReposts = true, a post marked as a repost, a reply or a
\* reblog never appears in the list of its direction and is never
\* published, on both platforms; when ignoreReposts = false, such a post
\* that passes the other filters (and, in a live pass, whose publish call
\* succeeds) is in the list its direction returns.
C12_RepostFilter ==
  \A p \in Procs :
    /\ config[p].ignoreReposts =>
         /\ \A post \in Range(bsky) :
              (post.reply \/ post.repost) => ~Handled(p, "bluesky", post.uri)
         /\ \A post \in Range(masto) :
              post.reblog => ~Handled(p, "mastodon", post.id)
    /\ (~config[p].ignoreReposts /\ ReturnedA(p)) =>
         \A k \in DOMAIN feed[p] :
           LET post == feed[p][k] IN
           (/\ post.reply \/ post.repost
            /\ ~OlderThanLastSync(config[p], post.indexedAt)
            /\ config[p].dryRun \/ Published(p, post.uri))
             => \E sp \in Range(blueskyToMastodon[p]) : sp.sourceId = post.uri
    /\ (~config[p].ignoreReposts /\ ReturnedB(p)) =>
         \A k \in DOMAIN feed[p] :
           LET post == feed[p][k] IN
           (/\ post.reblog
            /\ ~OlderThanLastSync(config[p], post.created_at)
            /\ ~NotOwnPost(config[p], post)
            /\ config[p].dryRun \/ Published(p, post.id))
             => \E sp \in Range(mastodonToBluesky[p]) : sp.sourceId = post.id

\* What happens instead of C12: with ignoreReposts = true a pass has gone
\* through and the list of the first direction holds a Bluesky repost.
C12_Witness ==
  \E p \in Procs :
    /\ pc[p] = "done"
    /\ report[p].success
    /\ config[p].ignoreReposts
    /\ \E post \in Range(bsky) :
         /\ post.repost
         /\ \E sp \in Range(blueskyToMastodon[p]) : sp.sourceId = post.uri

\* the two user names are the same without regard to letter case
SameUsername(a, b) == ToLowerCase(a) = ToLowerCase(b)

\* C13: a status of the Mastodon timeline whose account username differs,
\* letter case apart, from the configured mastodonUsername never appears in
\* a list of the pass and is never published to Bluesky, whatever its
\* timestamp, its reblog marker, ignoreReposts and dryRun are.
C13_AuthorFilter ==
  \A p \in Procs :
    pc[p] \notin {"idle", "threw"} =>
      \A post \in Range(masto) :
        ~SameUsername(post.username, config[p].mastodonUsername)
          => ~Handled(p, "mastodon", post.id)

\* C13 happens: the second direction has returned; its batch held a status
\* of another account that is newer than lastSync and no reblog, and a
\* status of the account, whose user name is configured in another letter
\* case, which is in the list.
C13_Witness ==
  \E p \in Procs :
    /\ ReturnedB(p)
    /\ pc[p] = "done"
    /\ report[p].success
    /\ config[p].mastodonUsername # AccountUsername
    /\ \E k \in DOMAIN feed[p] :
         /\ ~SameUsername(feed[p][k].username, config[p].mastodonUsername)
         /\ ~OlderThanLastSync(config[p], feed[p][k].created_at)
         /\ ~feed[p][k].reblog
    /\ \E sp \in Range(mastodonToBluesky[p]) :
         \E post \in Range(masto) :
           post.id = sp.sourceId /\ post.username = AccountUsername

\* ========================================================= order of a pass
\* the place of a call in a pass: the watermark read, authentication, the
\* listing and the publish calls of the first direction (Bluesky to
\* Mastodon), those of the second, the watermark write
Stage(e) ==
  CASE e.op = "get" -> 0
    [] e.op = "auth" -> 1
    [] e.op = "fetch" /\ e.platform = "bluesky" -> 2
    [] e.op = "publish" /\ e.platform = "mastodon" -> 3
    [] e.op = "fetch" /\ e.platform = "mastodon" -> 4
    [] e.op = "publish" /\ e.platform = "bluesky" -> 5
    [] e.op = "put" -> 6

\* the calls of every pass are in the order of their stages, each listing
\* is made once, and a listing or publish call comes after a successful
\* authentication
CallsInOrder ==
  \A p \in Procs :
    \A j \in DOMAIN trace[p] :
      /\ \A i \in 1..(j - 1) :
           /\ Stage(trace[p][i]) <= Stage(trace[p][j])
           /\ trace[p][j].op = "fetch"
                => Stage(trace[p][i]) < Stage(trace[p][j])
      /\ trace[p][j].op \in {"fetch", "publish"} =>
           \E i \in 1..(j - 1) : trace[p][i].op = "auth" /\ trace[p][i].ok

\* the step of its pass an invocation is at
Phase(p) ==
  CASE pc[p] \in {"idle", "threw"} -> "Uninitialized"
    [] pc[p] = "init" -> "Authenticating"
    [] pc[p] \in {"fetchA", "loopA"} -> "FetchingA"
    [] pc[p] \in {"fetchB", "loopB"} -> "FetchingB"
    [] pc[p] = "put" -> "Completed"
    [] pc[p] = "done" -> IF SyncReturned(p) THEN "Completed" ELSE "Failed"

\* the same, in the next state
PhaseNext(p) ==
  CASE pc'[p] \in {"idle", "threw"} -> "Uninitialized"
    [] pc'[p] = "init" -> "Authenticating"
    [] pc'[p] \in {"fetchA", "loopA"} -> "FetchingA"
    [] pc'[p] \in {"fetchB", "loopB"} -> "FetchingB"
    [] pc'[p] = "put" -> "Completed"
    [] pc'[p] = "done" -> IF SyncReturned(p)' THEN "Completed" ELSE "Failed"

\* a pass goes from a step to the next one or to Failed; when it has ended
\* the invocation is over
StepsInOrder ==
  \A p \in Procs :
    PhaseNext(p) # Phase(p) =>
      \/ <<Phase(p), PhaseNext(p)>> \in
           { <<"Uninitialized", "Authenticating">>,
             <<"Authenticating", "FetchingA">>,
             <<"FetchingA", "FetchingB">>,
             <<"FetchingB", "Completed">> }
      \/ /\ Phase(p) \in {"Authenticating", "FetchingA", "FetchingB"}
         /\ PhaseNext(p) = "Failed"
      \/ /\ Phase(p) \in {"Completed", "Failed"}
         /\ PhaseNext(p) = "Uninitialized"

\* C14: within one pass the steps happen in the order authenticate,
\* direction Bluesky to Mastodon, direction Mastodon to Bluesky, completed;
\* every listing and publish call of the first direction happens before
\* the first call of the second, none happens before authentication has
\* succeeded, and from a non-terminal step the pass goes only to the next
\* step or to Failed.
C14_PassOrdering == []CallsInOrder /\ [][StepsInOrder]_vars

\* C14 happens: a live pass has gone through all its steps, with a publish
\* call in each direction.
C14_Witness ==
  \E p \in Procs :
    /\ pc[p] = "done"
    /\ Phase(p) = "Completed"
    /\ \E e \in Calls(p, "publish") : e.platform = "mastodon"
    /\ \E e \in Calls(p, "publish") : e.platform = "bluesky"
    /\ \E e \in Calls(p, "put") : e.ok

\* ============================================================== timestamp
\* the instant of the publish call that made the target of a SyncedPost:
\* the creation time of that target on its platform
TargetTimestamp(sp) ==
  IF sp.source = "bluesky"
    THEN (CHOOSE post \in Range(masto) : post.id = sp.targetId).created_at
    ELSE (CHOOSE post \in Range(bsky) : post.uri = sp.targetId).indexedAt

\* C15: the timestamp of the results, which the trigger reports and
\* persists as the watermark, is the completion time of the pass: no
\* publish call of the pass has happened at a later instant than the one it
\* records.
C15_CompletionTimestamp ==
  \A p \in Procs :
    (report[p].returned /\ report[p].success) =>
      \A sp \in Range(blueskyToMastodon[p]) \cup Range(mastodonToBluesky[p]) :
        ~sp.simulated => TargetTimestamp(sp) <= report[p].timestamp

\* What happens instead of C15: a live pass has gone through and persisted
\* its timestamp, and a post it published was made after that instant.
C15_Witness ==
  \E p \in Procs :
    /\ pc[p] = "done"
    /\ report[p].success
    /\ kv = report[p].timestamp
    /\ \E e \in Calls(p, "put") : e.ok
    /\ \E sp \in Range(blueskyToMastodon[p]) :
         ~sp.simulated /\ TargetTimestamp(sp) > kv

\* ================================================================ trigger
\* a structured report: success with timestamp and stats, or failure with
\* the error message
Structured(r) ==
  /\ r.returned
  /\ r.success => (r.stats.present /\ r.timestamp # Null)
  /\ ~r.success => r.error # <<>>

\* C16: every invocation of handleSync ends by returning a structured
\* report and never by throwing, whichever call fails: authentication, a
\* listing, a publish, the watermark read at the start or the watermark
\* write at the end.
C16_AlwaysReports ==
  \A p \in Procs :
    /\ pc[p] # "threw"
    /\ pc[p] = "done" => Structured(report[p])

\* What happens instead of C16: SYNC_STORE.get has failed, and the
\* invocation has ended without a report.
C16_Witness ==
  \E p \in Procs :
    /\ pc[p] = "threw"
    /\ \E e \in Calls(p, "get") : ~e.ok
    /\ ~report[p].returned

\* values of the POSTS_TO_SYNC setting: absent, non-numeric, zero,
\* negative, positive
PostsToSyncTexts ==
  { <<>>, <<"a", "b", "c">>, <<"0">>, <<"-", "1">>, <<"-", "2", "5">>,
    <<"1">>, <<"1", "0">>, <<"2", "5">>, <<" ", "7">>, <<"5", "x">> }

\* the setting is absent or not a number
NotNumeric(setting) == setting = <<>> \/ ~\E k \in DOMAIN setting : IsDigit(setting[k])

\* C17: for every value of the POSTS_TO_SYNC setting the SyncConfig built
\* by the trigger has postsToSync > 0, and it is 10 when the setting is
\* absent or non-numeric: so it is for the config of every pass, and so it
\* would be had the setting of that pass been any other of the values.
C17_PostsToSyncPositive ==
  \A p \in Procs :
    pc[p] \notin {"idle", "threw"} =>
      /\ config[p].postsToSync > 0
      /\ NotNumeric(env.POSTS_TO_SYNC) => config[p].postsToSync = 10
      /\ \A setting \in PostsToSyncTexts :
           LET other == BuildConfig([env EXCEPT !.POSTS_TO_SYNC = setting],
                                    stored[p])
           IN /\ other.postsToSync > 0
              /\ NotNumeric(setting) => other.postsToSync = 10

\* What happens instead of C17: POSTS_TO_SYNC is '-1', the config has
\* postsToSync = -1, and the Bluesky listing made with that limit has been
\* refused.
C17_Witness ==
  \E p \in Procs :
    /\ env.POSTS_TO_SYNC = <<"-", "1">>
    /\ config[p].postsToSync = -1
    /\ \E e \in Calls(p, "fetch") : e.platform = "bluesky" /\ ~e.ok
    /\ report[p].returned
    /\ ~report[p].success

\* ====================================================== overlapping passes
\* a trigger can start an invocation whatever the other invocations are
\* doing: nothing excludes a second pass while a first is under way
NoMutualExclusion ==
  \A p \in Procs :
    (/\ pc[p] = "idle"
     /\ \A q \in Procs : q < p => pc[q] # "idle"
     /\ events < MaxEvents)
      => ENABLED Start(p)

\* two live passes that both read the watermark before either wrote it and
\* whose second directions have returned have each made a publish call for
\* every status that is in both batches and passes the filters
BothPublish ==
  \A p, q \in Procs :
    (/\ p # q
     /\ ReturnedB(p) /\ ReturnedB(q)
     /\ ~config[p].dryRun
     /\ config[p].lastSync = config[q].lastSync)
      => \A post \in Range(feed[p]) \cap Range(feed[q]) :
           EligibleB(config[p], post)
             => Attempted(p, post.id) /\ Attempted(q, post.id)

\* C18: no guard excludes a pass while another is under way, and when two
\* live passes overlap and both read the watermark before either writes
\* it, both publish the same source posts.
C18_NoMutualExclusion == NoMutualExclusion /\ BothPublish

\* C18 happens: two overlapping live passes have read the same watermark
\* and both have published the same source post on the opposite platform.
C18_Witness ==
  \E p, q \in Procs :
    /\ p # q
    /\ ~config[p].dryRun
    /\ pc[p] \notin {"idle", "threw"}
    /\ pc[q] \notin {"idle", "threw"}
    /\ stored[p] = stored[q]
    /\ \E e \in Calls(p, "publish") :
         \E f \in Calls(q, "publish") : e.id = f.id /\ e.ok /\ f.ok

\* ======================================================== normalisation
Whitespace == {" ", "\n", "\t", "\r"}

\* a text without its leading and trailing whitespace
RECURSIVE DropLeading(_)
DropLeading(t) ==
  IF t # <<>> /\ Head(t) \in Whitespace THEN DropLeading(Tail(t)) ELSE t

RECURSIVE DropTrailing(_)
DropTrailing(t) ==
  IF t # <<>> /\ t[Len(t)] \in Whitespace
    THEN DropTrailing(SubSeq(t, 1, Len(t) - 1))
    ELSE t

Trimmed(t) == DropTrailing(DropLeading(t))

\* the text has a run of three or more newlines
HasNewlineRun(t) ==
  \E i \in 1..(Len(t) - 2) : \A k \in i..(i + 2) : t[k] = "\n"

\* the text has a '<' that a '>' follows somewhere
HasTagShape(t) ==
  \E i \in DOMAIN t : \E j \in DOMAIN t : i < j /\ t[i] = "<" /\ t[j] = ">"

RECURSIVE Joined(_)
Joined(ps) ==
  IF Len(ps) = 1 THEN Head(ps).text
  ELSE Head(ps).text \o <<"\n", "\n">> \o Joined(Tail(ps))

\* C20: every paragraph element becomes its text followed by a double
\* newline, and the result is trimmed: markup made of paragraph elements
\* normalises to their texts with a double newline between one and the
\* next, also when an opening tag carries attributes or a text spans a
\* line break; <p>Hello</p><p>World</p> gives Hello\n\nWorld.
C20_ParagraphNormalisation ==
  (cleaned.done /\ paragraphs # <<>>) => cleaned.text = Joined(paragraphs)

\* What happens instead of C20: the opening tag of the first of two
\* paragraphs carries an attribute, and the two texts come out with
\* nothing between them.
C20_Witness ==
  /\ cleaned.done
  /\ Len(paragraphs) = 2
  /\ paragraphs[1].attributes # <<>>
  /\ paragraphs[1].text = Hello
  /\ paragraphs[2] = [attributes |-> <<>>, text |-> World]
  /\ cleaned.text = Hello \o World

\* ==================================================================== echo
\* the SyncedPosts the invocation p holds for posts it took from a platform
Selected(p, source) == { sp \in SyncedOf(p) : sp.source = source }

\* the posts the invocation p has itself published so far
PublishedBy(p, source) ==
  { sp.targetId : sp \in { x \in Selected(p, source) : ~x.simulated } }

\* C21: a post that the engine published to one platform during a live
\* pass is never selected for syncing back to the other platform: not by
\* the opposite direction later in the same pass, and not by a later pass
\* that starts from the watermark this pass persisted.
C21_NoEcho ==
  \A p \in Procs :
    /\ \A sp \in Selected(p, "mastodon") :
         sp.sourceId \notin PublishedBy(p, "bluesky")
    /\ \A sp \in SyncedOf(p) :
         stored[p] # Null =>
           [id |-> sp.sourceId, watermark |-> stored[p]] \notin committed

\* What happens instead of C21: a live pass has gone through, and the list
\* of its second direction holds the status that its first direction
\* published on Mastodon.
C21_Witness ==
  \E p \in Procs :
    /\ pc[p] = "done"
    /\ report[p].success
    /\ ~config[p].dryRun
    /\ \E a \in Range(blueskyToMastodon[p]) :
         \E b \in Range(mastodonToBluesky[p]) :
           /\ ~a.simulated
           /\ b.sourceId = a.targetId
           /\ ~b.simulated

\* ============================================================= fetch limit
\* C22: in each direction the engine processes at most postsToSync posts
\* per pass (the limit handed to the platform request is the configured
\* postsToSync in both directions): the batch a listing call returns has at
\* most postsToSync posts, and blueskyToMastodon and mastodonToBluesky each
\* have at most postsToSync entries.
C22_FetchLimit ==
  \A p \in Procs :
    /\ (BatchIsA(p) \/ BatchIsB(p)) =>
         /\ Len(feed[p]) <= config[p].postsToSync
         /\ Len(syncedPosts[p]) <= config[p].postsToSync
         /\ Len(blueskyToMastodon[p]) <= config[p].postsToSync
    /\ BatchIsB(p) => Len(mastodonToBluesky[p]) <= config[p].postsToSync

\* What happens instead of C22: with postsToSync = 1 a pass has gone
\* through and mastodonToBluesky has two entries.
C22_Witness ==
  \E p \in Procs :
    /\ pc[p] = "done"
    /\ report[p].success
    /\ config[p].postsToSync = 1
    /\ Len(mastodonToBluesky[p]) = 2
    /\ report[p].stats.mastodonToBluesky = 2

\* ========================================================= waits of the guard
\* C23: in withRateLimit every backoff wait is followed by another
\* invocation of the operation: there are fewer waits than invocations, and
\* with maxRetries attempts allowed (one at least) at most maxRetries - 1
\* waits.
C23_WaitThenRetry ==
  (rlOut.done /\ rlRetries >= 1) =>
    /\ Len(rlOut.waits) < rlOut.calls
    /\ Len(rlOut.waits) <= rlRetries - 1

\* What happens instead of C23: three attempts are allowed and each is
\* rate limited; the guard invokes the operation three times and waits
\* three times, the last time for 4000 ms before it gives up.
C23_Witness ==
  /\ rlOut.done
  /\ rlRetries = 3
  /\ \A k \in 1..3 : FailsRateLimited(k)
  /\ ~rlOut.ok
  /\ rlOut.calls = 3
  /\ rlOut.waits = <<1000, 2000, 4000>>

\* ============================================================= monotonicity
\* C24: when passes run one after another and the clock does not go
\* backwards, the persisted watermark never decreases: each write stores a
\* value greater than or equal to the value stored before it.
C24_WatermarkMonotone ==
  [][kv = Null \/ (kv' # Null /\ kv' >= kv)]_vars

\* C24 happens: a pass that started from a persisted watermark has written
\* its own, a later one.
C24_Witness ==
  \E p \in Procs :
    /\ pc[p] = "done"
    /\ report[p].success
    /\ \E e \in Calls(p, "put") : e.ok
    /\ stored[p] # Null
    /\ kv = currentTime[p]
    /\ kv > stored[p]

\* ======================================================= frame of the engine
\* sync() of the invocation p is under way
InSync(p) == pc[p] \in {"init", "fetchA", "loopA", "fetchB", "loopB"}

\* the step is one of sync() of the invocation p
SyncStep(p) == InSync(p) /\ (pc'[p] # pc[p] \/ idx'[p] # idx[p])

\* the calls the step adds to the trace of the invocation p
NewCalls(p) ==
  { trace'[p][k] : k \in (DOMAIN trace'[p]) \ (DOMAIN trace[p]) }

\* no step of sync() touches the store or the configuration
EngineStepsFrame ==
  \A p \in Procs :
    SyncStep(p) =>
      /\ kv' = kv
      /\ stored'[p] = stored[p]
      /\ config'[p] = config[p]
      /\ \A e \in NewCalls(p) : e.platform # "kv"

\* from the call of sync() until the trigger's put has succeeded, the
\* store holds what it held before the call and the configuration is the
\* one the trigger built
EngineLeavesWatermark ==
  \A p \in Procs :
    (pc[p] \notin {"idle", "threw"} /\ ~\E e \in Calls(p, "put") : e.ok) =>
      /\ kv = stored[p]
      /\ config[p] = BuildConfig(env, stored[p])

\* C25: sync() (initialize, syncFromBluesky, syncFromMastodon) never reads
\* or writes the watermark store and never changes its config, lastSync or
\* dryRun during a pass: the persisted watermark is the same before and
\* after every call of sync(), whether it succeeds or fails.
C25_EngineFrame == []EngineLeavesWatermark /\ [][EngineStepsFrame]_vars

\* C25 happens: sync() of a live pass that started from a persisted
\* watermark has run both directions and returned, and the store still
\* holds that watermark and the engine's lastSync is still that value.
C25_Witness ==
  \E p \in Procs :
    /\ pc[p] = "put"
    /\ stored[p] # Null
    /\ BatchIsB(p)
    /\ kv = stored[p]
    /\ config[p].lastSync = stored[p]
    /\ ~config[p].dryRun

====
